---- MODULE Spec2Model ----
(***************************************************************************)
(* Task-flow manager: the relational store with its row-level security     *)
(* policies (the SQL migration), the client hooks that write to it         *)
(* (useTasks, UserManagement.handleSaveRole) and the session manager       *)
(* (AuthContext).                                                          *)
(*                                                                         *)
(* The specifications share the variables:                                 *)
(*   SpecRoles     users, profiles and user_roles under the role policies  *)
(*   SpecTasks     the tasks table under the task policies and useTasks    *)
(*   SpecAuth      AuthProvider's state under auth events and fetches      *)
(*   SpecProjects  the projects table under its policies, with its tasks   *)
(*   SpecHooks     one browser's useTasks and useProjects over the store   *)
(*   SpecFetch     useTasks with its refetches in flight                   *)
(*   SpecLoading   a browser from startup to the mounted page, fair        *)
(*   SpecDialogs   TaskDialog and ProjectDialog over the hooks             *)
(* Columns that no policy, trigger or handler branches on (title,          *)
(* description, priority, due_date, created_at, updated_at, row ids of     *)
(* user_roles) are not part of the rows below.                             *)
(***************************************************************************)
EXTENDS Integers, FiniteSets, Sequences, TLC

VARIABLES
    users,          \* auth.users: the ids of the existing actors
    userRoles,      \* public.user_roles: set of <<user_id, role>>, UNIQUE (user_id, role)
    profiles,       \* public.profiles: id -> [email, full_name]
    tasks,          \* public.tasks: id -> [status, assigned_to, created_by, completed_at, project_id]
    projects,       \* public.projects: id -> [name, created_by]
    now,            \* the clock read by now() and new Date()
    saveRole,       \* UserManagement.handleSaveRole of each client: position and inputs
    user,           \* AuthProvider state: user
    session,        \* AuthProvider state: session, <<user id, token generation>>, <<>> for null
    profile,        \* AuthProvider state: profile, <<id, email, full_name>>, <<>> for null
    role,           \* AuthProvider state: role
    loading,        \* AuthProvider state: loading
    authSession,    \* the authentication service's current session (persisted), <<>> for none
    getSessionPending, \* supabase.auth.getSession() of the mount effect has not resolved
    timers,         \* setTimeout(() => fetchUserData(id), 0) not yet run: id -> count
    inflight,       \* fetchUserData calls awaiting Promise.all: <<id, requester>> -> count
    signOutPending, \* signOut() is awaiting supabase.auth.signOut()
    authError,      \* which of signIn, signUp last returned { error } to its caller
    hookTasks,      \* useTasks state: tasks, id -> row as last fetched
    hookProjects,   \* useProjects state: projects, id -> row as last fetched
    call,           \* the last mutation a hook ran: what the store did, toast, rethrown
    hookTaskCounts, \* useProjects state: projectTaskCounts, project id -> count
    tasksLoading,   \* useTasks state: loading
    projectsLoading, \* useProjects state: loading
    taskFetches,    \* fetchData calls awaiting their selects: the answers on their way
    projectFetches, \* fetchProjects calls awaiting Promise.all: the answers on their way
    effectUser,     \* the user the hooks' effect last ran for; null while the page is not mounted
    taskDialog,     \* TaskDialog: open, isLoading, title, task, and the title last given to onSave
    projectDialog   \* ProjectDialog: open, isLoading, name, project

storeVars == <<users, userRoles, profiles, tasks, now, saveRole, projects>>
authVars == <<user, session, profile, role, loading, authSession,
              getSessionPending, timers, inflight, signOutPending, authError>>
asyncVars == <<taskFetches, projectFetches, effectUser>>
dialogVars == <<taskDialog, projectDialog>>
hookVars == <<hookTasks, hookProjects, call, hookTaskCounts, tasksLoading,
              projectsLoading, asyncVars, dialogVars>>
vars == <<users, userRoles, profiles, tasks, now, saveRole, user, session,
          profile, role, loading, authSession, getSessionPending, timers,
          inflight, signOutPending, authError, projects, hookTasks, hookProjects,
          call, hookTaskCounts, tasksLoading, projectsLoading, taskFetches,
          projectFetches, effectUser, taskDialog, projectDialog>>

----------------------------------------------------------------------------
(* Bounds and value sets *)

Actors == {"a1", "a2", "a3"}
TaskIds == {"t1", "t2"}
Names == {"n1"}
NULL == "null"
MaxClock == 2
MaxInFlight == 2
MaxToken == 2

Roles == {"admin", "department_head", "employee"}
Statuses == {"pending", "in_progress", "completed"}

Email == [a \in Actors |-> <<a, "@x.com">>]

\* the actors that sign in on the modelled browser; a fetchUserData call is keyed
\* by the id it asks for and by the actor whose token its two reads carry
AuthActors == {"a1", "a2"}
FetchKeys == AuthActors \X (AuthActors \cup {NULL})

----------------------------------------------------------------------------
(* Role lookup *)

has_role(_user_id, _role) == <<_user_id, _role>> \in userRoles

RolesOf(u) == {r \in Roles : has_role(u, r)}

\* "TO authenticated": the request carries the token of an existing actor
Authenticated(uid) == uid \in users

----------------------------------------------------------------------------
(* Policies on user_roles and profiles *)

RolesSelectPolicy(uid, row) ==
    Authenticated(uid) /\ (row[1] = uid \/ has_role(uid, "admin"))

RolesManagePolicySelf(uid, row) ==
    Authenticated(uid) /\ (row[1] = uid \/ has_role(uid, "admin"))

\* FOR ALL ... USING: also the WITH CHECK of INSERT and UPDATE
RolesManagePolicy(uid, row) ==
    Authenticated(uid) /\ has_role(uid, "admin")

ProfilesUpdatePolicyAll(uid, id) == Authenticated(uid)

ProfilesUpdatePolicy(uid, id) == Authenticated(uid) /\ id = uid

\* "Users can insert own profile": WITH CHECK (id = auth.uid())
ProfilesInsertPolicy(uid, id) == Authenticated(uid) /\ id = uid

\* profiles has no DELETE policy: with row level security enabled no row passes
ProfilesDeletePolicy(uid, id) == FALSE

\* insert into profiles: policy, foreign key to auth.users, primary key
ProfilesInsertOk(uid, id) ==
    /\ ProfilesInsertPolicy(uid, id)
    /\ id \in users
    /\ id \notin DOMAIN profiles

\* update profiles set full_name = .. where id = target: the row the policy lets uid update
ProfilesAfterUpdate(uid, target, fullName) ==
    IF target \in DOMAIN profiles /\ ProfilesUpdatePolicy(uid, target)
    THEN [profiles EXCEPT ![target].full_name = <<fullName>>]
    ELSE profiles

ProfilesAfterDelete(uid, id) ==
    [x \in {y \in DOMAIN profiles : ~(y = id /\ ProfilesDeletePolicy(uid, y))} |-> profiles[x]]

\* insert into user_roles (user_id, role): policy, foreign key, UNIQUE (user_id, role)
RolesInsertOk(uid, u, r) ==
    /\ RolesManagePolicy(uid, <<u, r>>)
    /\ u \in users
    /\ <<u, r>> \notin userRoles

RolesAfterInsert(uid, u, r) ==
    IF RolesInsertOk(uid, u, r) THEN userRoles \cup {<<u, r>>} ELSE userRoles

\* delete from user_roles where user_id = u: the rows the policies let uid see and delete
RolesAfterDelete(uid, u) ==
    {row \in userRoles :
        ~(row[1] = u /\ RolesSelectPolicy(uid, row) /\ RolesManagePolicy(uid, row))}

\* update user_roles set role = r2 where user_id = u and role = r
RolesAfterUpdate(uid, u, r, r2) ==
    IF /\ <<u, r>> \in userRoles
       /\ RolesSelectPolicy(uid, <<u, r>>)
       /\ RolesManagePolicy(uid, <<u, r>>)
       /\ RolesManagePolicy(uid, <<u, r2>>)
       /\ (r2 = r \/ <<u, r2>> \notin userRoles)
    THEN (userRoles \ {<<u, r>>}) \cup {<<u, r2>>}
    ELSE userRoles

----------------------------------------------------------------------------
(* Actions on users, profiles and user_roles *)

IdleSave == [pc |-> "idle", target |-> NULL, newRole |-> NULL]

\* handle_new_user without its second insert
SignUpWithoutRole(u, fullName) ==
    /\ u \notin users
    /\ users' = users \cup {u}
    /\ profiles' = profiles @@
          (u :> [email |-> Email[u],
                 full_name |-> IF fullName = NULL THEN Email[u] ELSE <<fullName>>])
    /\ UNCHANGED <<userRoles, tasks, now, saveRole>>
    /\ UNCHANGED <<projects, authVars, hookVars>>

\* auth.users insert with trigger on_auth_user_created -> handle_new_user
SignUp(u, fullName) ==
    /\ u \notin users
    /\ users' = users \cup {u}
    /\ profiles' = profiles @@
          (u :> [email |-> Email[u],
                 full_name |-> IF fullName = NULL THEN Email[u] ELSE <<fullName>>])
    /\ userRoles' = userRoles \cup {<<u, "employee">>}
    /\ UNCHANGED <<tasks, now, saveRole>>
    /\ UNCHANGED <<projects, authVars, hookVars>>

\* update profiles set full_name = .. where id = target, as actor uid
UpdateProfile(uid, target, fullName) ==
    /\ uid \in users
    /\ target \in DOMAIN profiles
    /\ profiles' = ProfilesAfterUpdate(uid, target, fullName)
    /\ UNCHANGED <<users, userRoles, tasks, now, saveRole>>
    /\ UNCHANGED <<projects, authVars, hookVars>>

\* the store's primitives on profiles that no handler calls, sent by a client
ProfilesInsert(uid, id, fullName) ==
    /\ uid \in users
    /\ profiles' = IF ProfilesInsertOk(uid, id)
                   THEN profiles @@ (id :> [email |-> Email[id], full_name |-> <<fullName>>])
                   ELSE profiles
    /\ UNCHANGED <<users, userRoles, tasks, now, saveRole>>
    /\ UNCHANGED <<projects, authVars, hookVars>>

ProfilesDelete(uid, id) ==
    /\ uid \in users
    /\ profiles' = ProfilesAfterDelete(uid, id)
    /\ UNCHANGED <<users, userRoles, tasks, now, saveRole>>
    /\ UNCHANGED <<projects, authVars, hookVars>>

\* handleSaveRole up to its first await: the delete; its error is not read
HandleSaveRoleDelete(uid, target, newRole) ==
    /\ uid \in DOMAIN saveRole
    /\ uid \in users
    /\ saveRole[uid].pc = "idle"
    /\ target \in users \ {uid}
    /\ \E netOk \in BOOLEAN :
         userRoles' = IF netOk THEN RolesAfterDelete(uid, target) ELSE userRoles
    /\ saveRole' = [saveRole EXCEPT ![uid] =
                       [pc |-> "deleted", target |-> target, newRole |-> newRole]]
    /\ UNCHANGED <<users, profiles, tasks, now>>
    /\ UNCHANGED <<projects, authVars, hookVars>>

\* handleSaveRole from the insert to the end
HandleSaveRoleInsert(uid) ==
    /\ uid \in DOMAIN saveRole
    /\ saveRole[uid].pc = "deleted"
    /\ \E netOk \in BOOLEAN :
         userRoles' = IF netOk
                      THEN RolesAfterInsert(uid, saveRole[uid].target, saveRole[uid].newRole)
                      ELSE userRoles
    /\ saveRole' = [saveRole EXCEPT ![uid] = IdleSave]
    /\ UNCHANGED <<users, profiles, tasks, now>>
    /\ UNCHANGED <<projects, authVars, hookVars>>

\* handleSaveRole's insert seen from the state its delete left: user_roles
\* after it, and the toast the handler ends with (insertOk: the request reaches
\* the store and its answer comes back)
SaveRoleEnd(uid, target, newRole, insertOk) ==
    IF insertOk THEN RolesAfterInsert(uid, target, newRole) ELSE userRoles

SaveRoleToast(uid, target, newRole, insertOk) ==
    IF insertOk /\ RolesInsertOk(uid, target, newRole)
    THEN "Role updated successfully"
    ELSE "Error updating role"

\* the store's primitives on user_roles, called by any client
RolesInsert(uid, u, r) ==
    /\ uid \in users
    /\ userRoles' = RolesAfterInsert(uid, u, r)
    /\ UNCHANGED <<users, profiles, tasks, now, saveRole>>
    /\ UNCHANGED <<projects, authVars, hookVars>>

RolesDelete(uid, u) ==
    /\ uid \in users
    /\ userRoles' = RolesAfterDelete(uid, u)
    /\ UNCHANGED <<users, profiles, tasks, now, saveRole>>
    /\ UNCHANGED <<projects, authVars, hookVars>>

RolesUpdate(uid, u, r, r2) ==
    /\ uid \in users
    /\ userRoles' = RolesAfterUpdate(uid, u, r, r2)
    /\ UNCHANGED <<users, profiles, tasks, now, saveRole>>
    /\ UNCHANGED <<projects, authVars, hookVars>>

----------------------------------------------------------------------------
(* AuthProvider's state at construction (useState initial values) *)

AuthInit ==
    /\ user = NULL
    /\ session = <<>>
    /\ profile = <<>>
    /\ role = NULL
    /\ loading = TRUE
    /\ authSession = <<>>
    /\ getSessionPending = TRUE
    /\ timers = [a \in AuthActors |-> 0]
    /\ inflight = [k \in FetchKeys |-> 0]
    /\ signOutPending = FALSE
    /\ authError = NULL

\* useTasks and useProjects at construction (useState initial values); no call yet
NoCall == [fn |-> "none", rows |-> 0, toast |-> "none", thrown |-> FALSE]

\* the title no onSave call has carried
NoTitle == <<"none">>

\* TaskDialog and ProjectDialog while closed (open false, isLoading false)
\* task, project: the row the dialog edits, null for a new one; sent, sentId:
\* the title or name and the id the last onSave call carried
ClosedTaskDialog ==
    [open |-> FALSE, isLoading |-> FALSE, task |-> NULL, sent |-> NoTitle, sentId |-> NULL]
ClosedProjectDialog ==
    [open |-> FALSE, isLoading |-> FALSE, project |-> NULL, sent |-> NoTitle, sentId |-> NULL]

HooksInit ==
    /\ hookTasks = <<>>
    /\ hookProjects = <<>>
    /\ call = NoCall
    /\ hookTaskCounts = <<>>
    /\ tasksLoading = TRUE
    /\ projectsLoading = TRUE
    /\ taskFetches = {}
    /\ projectFetches = {}
    /\ taskDialog = ClosedTaskDialog
    /\ projectDialog = ClosedProjectDialog

SaveRoleClients == {"a1", "a2"}

InitRoles ==
    /\ users = {"a1", "a2"}
    /\ userRoles = {<<"a1", "admin">>, <<"a2", "employee">>}
    /\ profiles = [u \in {"a1", "a2"} |-> [email |-> Email[u], full_name |-> <<"n1">>]]
    /\ tasks = <<>>
    /\ projects = <<>>
    /\ now = 1
    /\ saveRole = [c \in SaveRoleClients |-> IdleSave]
    /\ AuthInit
    /\ HooksInit
    /\ effectUser = NULL

NextRoles ==
    \/ \E uid \in Actors, target \in Actors, r \in Roles : HandleSaveRoleDelete(uid, target, r)
    \/ \E uid \in Actors : HandleSaveRoleInsert(uid)
    \/ \E u \in Actors, n \in Names \cup {NULL} : SignUp(u, n)
    \/ \E uid \in Actors, target \in Actors, n \in Names : UpdateProfile(uid, target, n)
    \/ \E uid \in Actors, id \in Actors, n \in Names : ProfilesInsert(uid, id, n)
    \/ \E uid \in Actors, id \in Actors : ProfilesDelete(uid, id)
    \/ \E uid \in Actors, u \in Actors, r \in Roles : RolesInsert(uid, u, r)
    \/ \E uid \in Actors, u \in Actors : RolesDelete(uid, u)
    \/ \E uid \in Actors, row \in userRoles, r2 \in Roles : RolesUpdate(uid, row[1], row[2], r2)

SpecRoles == InitRoles /\ [][NextRoles]_vars

----------------------------------------------------------------------------
(* Policies on tasks *)

TasksSelectPolicyAll(uid, row) == Authenticated(uid)

TasksSelectPolicy(uid, row) ==
    /\ Authenticated(uid)
    /\ \/ row.assigned_to = uid
       \/ has_role(uid, "department_head")
       \/ has_role(uid, "admin")

TasksInsertPolicy(uid, row) ==
    /\ Authenticated(uid)
    /\ (has_role(uid, "department_head") \/ has_role(uid, "admin"))

\* USING; with no WITH CHECK clause it is also the check of the new row
TasksUpdatePolicy(uid, row) ==
    /\ Authenticated(uid)
    /\ \/ row.assigned_to = uid
       \/ has_role(uid, "department_head")
       \/ has_role(uid, "admin")

TasksDeletePolicy(uid, row) ==
    /\ Authenticated(uid)
    /\ (has_role(uid, "admin") \/ has_role(uid, "department_head"))

\* assigned_to, created_by REFERENCES auth.users(id); project_id REFERENCES projects(id)
TasksForeignKeys(row) ==
    /\ row.assigned_to \in users \cup {NULL}
    /\ row.created_by \in users \cup {NULL}
    /\ row.project_id \in DOMAIN projects \cup {NULL}

\* select * from tasks, as actor uid (fetchData)
TasksSelect(uid) == {t \in DOMAIN tasks : TasksSelectPolicy(uid, tasks[t])}

----------------------------------------------------------------------------
(* useTasks: createTask, updateTask, toggleTaskComplete *)

\* the actors the dialog's assignee select offers in this model
Assignees == {"a2", "a3"}

\* Partial<Task>: records over a subset of the fields status and assigned_to
TaskData ==
    {[status |-> s] : s \in Statuses}
    \cup {[assigned_to |-> u] : u \in Assignees \cup {NULL}}
    \cup {[status |-> s, assigned_to |-> u] : s \in Statuses, u \in Assignees \cup {NULL}}

Has(d, k) == k \in DOMAIN d

\* the row createTask inserts: column defaults status 'pending', completed_at null (0)
InsertedRow(uid, taskData) ==
    [status |-> IF Has(taskData, "status") THEN taskData.status ELSE "pending",
     assigned_to |-> IF Has(taskData, "assigned_to") THEN taskData.assigned_to ELSE NULL,
     created_by |-> uid,
     completed_at |-> 0,
     project_id |-> IF Has(taskData, "project_id") THEN taskData.project_id ELSE NULL]

TasksInsertOk(uid, row) == TasksInsertPolicy(uid, row) /\ TasksForeignKeys(row)

createTask(uid, taskData) ==
    /\ uid \in users
    /\ \E t \in TaskIds \ DOMAIN tasks :
         LET row == InsertedRow(uid, taskData) IN
         tasks' = IF TasksInsertOk(uid, row) THEN tasks @@ (t :> row) ELSE tasks
    /\ UNCHANGED <<users, userRoles, profiles, now, saveRole>>
    /\ UNCHANGED <<projects, authVars, hookVars>>

UpdateDataKeepCompletedAt(taskData) ==
    IF Has(taskData, "status") /\ taskData.status = "completed"
    THEN taskData @@ [completed_at |-> now]
    ELSE taskData

\* updateTask's updateData when new Date() reads time: completed_at follows the
\* status when one is given
UpdateDataAt(taskData, time) ==
    IF Has(taskData, "status") /\ taskData.status = "completed"
    THEN taskData @@ [completed_at |-> time]
    ELSE IF Has(taskData, "status")
    THEN taskData @@ [completed_at |-> 0]
    ELSE taskData

UpdateData(taskData) == UpdateDataAt(taskData, now)

UpdatedRow(row, updateData) ==
    [k \in DOMAIN row |-> IF Has(updateData, k) THEN updateData[k] ELSE row[k]]

\* update tasks set .. where id = t, as actor uid, changes the row
TasksUpdateApplies(uid, t, updateData) ==
    /\ t \in DOMAIN tasks
    /\ TasksUpdatePolicy(uid, tasks[t])
    /\ TasksUpdatePolicy(uid, UpdatedRow(tasks[t], updateData))
    /\ TasksForeignKeys(UpdatedRow(tasks[t], updateData))

TasksAfterUpdate(uid, t, updateData) ==
    IF TasksUpdateApplies(uid, t, updateData)
    THEN [tasks EXCEPT ![t] = UpdatedRow(tasks[t], updateData)]
    ELSE tasks

updateTask(uid, taskId, taskData) ==
    /\ uid \in users
    /\ tasks' = TasksAfterUpdate(uid, taskId, UpdateData(taskData))
    /\ UNCHANGED <<users, userRoles, profiles, now, saveRole>>
    /\ UNCHANGED <<projects, authVars, hookVars>>

\* the taskData toggleTaskComplete passes to updateTask
ToggleData(completed) == [status |-> IF completed THEN "completed" ELSE "pending"]

toggleTaskComplete(uid, taskId, completed) ==
    updateTask(uid, taskId, ToggleData(completed))

\* delete from tasks where id = t, as actor uid, removes the row
TasksDeleteApplies(uid, t) ==
    /\ t \in DOMAIN tasks
    /\ TasksSelectPolicy(uid, tasks[t])
    /\ TasksDeletePolicy(uid, tasks[t])

TasksAfterDelete(uid, t) ==
    IF TasksDeleteApplies(uid, t)
    THEN [x \in DOMAIN tasks \ {t} |-> tasks[x]]
    ELSE tasks

TasksDelete(uid, t) ==
    /\ uid \in users
    /\ tasks' = TasksAfterDelete(uid, t)
    /\ UNCHANGED <<users, userRoles, profiles, now, saveRole>>
    /\ UNCHANGED <<projects, authVars, hookVars>>

Tick ==
    /\ now < MaxClock
    /\ now' = now + 1
    /\ UNCHANGED <<users, userRoles, profiles, tasks, saveRole>>
    /\ UNCHANGED <<projects, authVars, hookVars>>

\* role rows per actor in the initial states of SpecTasks: a1 is an admin, a2 and
\* a3 hold no row (between handleSaveRole's delete and insert) or one row
RoleConfigs ==
    {{<<"a1", "admin">>} \cup r2 \cup r3 :
        r2 \in {{}} \cup {{<<"a2", r>>} : r \in Roles},
        r3 \in {{}} \cup {{<<"a3", r>>} : r \in Roles}}

InitTasks ==
    /\ users = Actors
    /\ userRoles \in RoleConfigs
    /\ profiles = [u \in Actors |-> [email |-> Email[u], full_name |-> <<"n1">>]]
    /\ tasks = <<>>
    /\ projects = <<>>
    /\ now = 1
    /\ saveRole = [c \in SaveRoleClients |-> IdleSave]
    /\ AuthInit
    /\ HooksInit
    /\ effectUser = NULL

NextTasks ==
    \/ \E uid \in Actors, d \in TaskData : createTask(uid, d)
    \/ \E uid \in Actors, t \in TaskIds, d \in TaskData : updateTask(uid, t, d)
    \/ \E uid \in Actors, t \in TaskIds, c \in BOOLEAN : toggleTaskComplete(uid, t, c)
    \/ \E uid \in Actors, t \in TaskIds : TasksDelete(uid, t)
    \/ Tick

SpecTasks == InitTasks /\ [][NextTasks]_vars

----------------------------------------------------------------------------
(* Policies on projects; createProject, updateProject and the delete primitive *)

ProjectIds == {"p1", "p2"}
ProjectNames == {"pn1", "pn2"}

ProjectsSelectPolicy(uid, row) == Authenticated(uid)

ProjectsInsertPolicyAll(uid, row) == Authenticated(uid)

ProjectsInsertPolicy(uid, row) ==
    /\ Authenticated(uid)
    /\ (has_role(uid, "department_head") \/ has_role(uid, "admin"))

\* USING; with no WITH CHECK clause it is also the check of the new row
ProjectsUpdatePolicy(uid, row) ==
    /\ Authenticated(uid)
    /\ (has_role(uid, "department_head") \/ has_role(uid, "admin"))

ProjectsDeletePolicy(uid, row) ==
    Authenticated(uid) /\ has_role(uid, "admin")

\* created_by REFERENCES auth.users(id)
ProjectsForeignKeys(row) == row.created_by \in users \cup {NULL}

\* select * from projects, as actor uid
ProjectsSelect(uid) == {p \in DOMAIN projects : ProjectsSelectPolicy(uid, projects[p])}

\* Partial<Project>: the dialog's name
ProjectData == {[name |-> n] : n \in ProjectNames}

\* the row createProject inserts
ProjectRow(uid, projectData) == [name |-> projectData.name, created_by |-> uid]

ProjectsInsertOk(uid, row) == ProjectsInsertPolicy(uid, row) /\ ProjectsForeignKeys(row)

\* update projects set .. where id = p, as actor uid, changes the row
ProjectsUpdateApplies(uid, p, projectData) ==
    /\ p \in DOMAIN projects
    /\ ProjectsSelectPolicy(uid, projects[p])
    /\ ProjectsUpdatePolicy(uid, projects[p])
    /\ ProjectsUpdatePolicy(uid, UpdatedRow(projects[p], projectData))
    /\ ProjectsForeignKeys(UpdatedRow(projects[p], projectData))

ProjectsAfterUpdate(uid, p, projectData) ==
    IF ProjectsUpdateApplies(uid, p, projectData)
    THEN [projects EXCEPT ![p] = UpdatedRow(projects[p], projectData)]
    ELSE projects

\* delete from projects where id = p, as actor uid, removes the row
ProjectsDeleteApplies(uid, p) ==
    /\ p \in DOMAIN projects
    /\ ProjectsSelectPolicy(uid, projects[p])
    /\ ProjectsDeletePolicy(uid, projects[p])

\* tasks.project_id ... ON DELETE CASCADE
TasksAfterProjectDelete(p) ==
    [t \in {x \in DOMAIN tasks : tasks[x].project_id # p} |-> tasks[t]]

createProject(uid, projectData) ==
    /\ uid \in users
    /\ \E p \in ProjectIds \ DOMAIN projects :
         LET row == ProjectRow(uid, projectData) IN
         projects' = IF ProjectsInsertOk(uid, row) THEN projects @@ (p :> row) ELSE projects
    /\ UNCHANGED <<users, userRoles, profiles, tasks, now, saveRole>>
    /\ UNCHANGED <<authVars, hookVars>>

updateProject(uid, projectId, projectData) ==
    /\ uid \in users
    /\ projects' = ProjectsAfterUpdate(uid, projectId, projectData)
    /\ UNCHANGED <<users, userRoles, profiles, tasks, now, saveRole>>
    /\ UNCHANGED <<authVars, hookVars>>

ProjectsDelete(uid, p) ==
    /\ uid \in users
    /\ IF ProjectsDeleteApplies(uid, p)
       THEN /\ projects' = [q \in DOMAIN projects \ {p} |-> projects[q]]
            /\ tasks' = TasksAfterProjectDelete(p)
       ELSE UNCHANGED <<projects, tasks>>
    /\ UNCHANGED <<users, userRoles, profiles, now, saveRole>>
    /\ UNCHANGED <<authVars, hookVars>>

\* the taskData Projects.handleSaveTask adds when a task is created inside a project
ProjectTaskData == {[project_id |-> p] : p \in ProjectIds}

\* the taskData of a reassignment
AssignData == {[assigned_to |-> u] : u \in Assignees}

\* tasks.assigned_to and tasks.created_by ... ON DELETE SET NULL
TasksAfterUserDelete(u) ==
    [t \in DOMAIN tasks |->
        [tasks[t] EXCEPT !.assigned_to = IF @ = u THEN NULL ELSE @,
                         !.created_by = IF @ = u THEN NULL ELSE @]]

\* projects.created_by ... ON DELETE SET NULL
ProjectsAfterUserDelete(u) ==
    [p \in DOMAIN projects |->
        [projects[p] EXCEPT !.created_by = IF @ = u THEN NULL ELSE @]]

\* delete from auth.users where id = u (the service's administration): the
\* rows of user_roles and profiles go with it (ON DELETE CASCADE)
DeleteUser(u) ==
    /\ u \in users
    /\ users' = users \ {u}
    /\ userRoles' = {row \in userRoles : row[1] # u}
    /\ profiles' = [x \in DOMAIN profiles \ {u} |-> profiles[x]]
    /\ tasks' = TasksAfterUserDelete(u)
    /\ projects' = ProjectsAfterUserDelete(u)
    /\ UNCHANGED <<now, saveRole>>
    /\ UNCHANGED <<authVars, hookVars>>

InitProjects ==
    /\ users = Actors
    /\ userRoles \in RoleConfigs
    /\ profiles = [u \in Actors |-> [email |-> Email[u], full_name |-> <<"n1">>]]
    /\ tasks = <<>>
    /\ projects = <<>>
    /\ now = 1
    /\ saveRole = [c \in SaveRoleClients |-> IdleSave]
    /\ AuthInit
    /\ HooksInit
    /\ effectUser = NULL

NextProjects ==
    \/ \E uid \in Actors, d \in ProjectData : createProject(uid, d)
    \/ \E uid \in Actors, p \in ProjectIds, d \in ProjectData : updateProject(uid, p, d)
    \/ \E uid \in Actors, p \in ProjectIds : ProjectsDelete(uid, p)
    \/ \E uid \in Actors, d \in ProjectTaskData : createTask(uid, d)
    \/ \E uid \in Actors, t \in TaskIds, d \in AssignData : updateTask(uid, t, d)
    \/ \E u \in Actors : DeleteUser(u)

SpecProjects == InitProjects /\ [][NextProjects]_vars

----------------------------------------------------------------------------
(* AuthContext: AuthProvider *)

SessionUser(sess) == IF sess = <<>> THEN NULL ELSE sess[1]

RECURSIVE SumOver(_, _)
SumOver(f, S) ==
    IF S = {} THEN 0
    ELSE LET x == CHOOSE y \in S : TRUE IN f[x] + SumOver(f, S \ {x})

\* fetchUserData calls scheduled or awaiting their reads
Pending == SumOver(timers, AuthActors) + SumOver(inflight, FetchKeys)

ProfileData(id) == <<id, profiles[id].email, profiles[id].full_name>>

\* from('profiles').select('*').eq('id', userId).single(), sent with req's token:
\* data, or <<>> when the request fails or does not return exactly one row
ProfileRead(userId, req, netOk) ==
    IF netOk /\ Authenticated(req) /\ userId \in DOMAIN profiles
    THEN ProfileData(userId)
    ELSE <<>>

\* from('user_roles').select('role').eq('user_id', userId).single()
RoleRead(userId, req, netOk) ==
    LET rows == {row \in userRoles : row[1] = userId /\ RolesSelectPolicy(req, row)} IN
    IF netOk /\ Cardinality(rows) = 1
    THEN (CHOOSE row \in rows : TRUE)[2]
    ELSE NULL

isAdmin == role = "admin"
isDepartmentHead == role = "department_head"
isEmployee == role = "employee"
canManageTasks == isAdmin \/ isDepartmentHead
canManageProjects == isAdmin \/ isDepartmentHead

\* a callback that drops the user and the session but keeps what was fetched
OnAuthStateChangeKeepsRole(sess) ==
    /\ session' = sess
    /\ user' = SessionUser(sess)
    /\ IF sess # <<>>
       THEN /\ timers' = [timers EXCEPT ![sess[1]] = @ + 1]
            /\ UNCHANGED <<profile, role, loading>>
       ELSE /\ loading' = FALSE
            /\ UNCHANGED <<profile, role, timers>>

\* the callback given to onAuthStateChange, for any event
OnAuthStateChange(sess) ==
    /\ session' = sess
    /\ user' = SessionUser(sess)
    /\ IF sess # <<>>
       THEN /\ timers' = [timers EXCEPT ![sess[1]] = @ + 1]
            /\ UNCHANGED <<profile, role, loading>>
       ELSE /\ profile' = <<>>
            /\ role' = NULL
            /\ loading' = FALSE
            /\ UNCHANGED timers

\* the calling half of fetchUserData: both reads leave with the current token
StartFetch(userId) ==
    inflight' = [inflight EXCEPT ![<<userId, SessionUser(authSession)>>] = @ + 1]

\* a getSession callback that takes the spinner down as soon as it has the answer
GetSessionResolvedEager ==
    /\ getSessionPending
    /\ getSessionPending' = FALSE
    /\ session' = authSession
    /\ user' = SessionUser(authSession)
    /\ loading' = FALSE
    /\ IF authSession # <<>> THEN StartFetch(authSession[1]) ELSE UNCHANGED inflight
    /\ UNCHANGED <<profile, role, authSession, timers, signOutPending>>
    /\ UNCHANGED <<storeVars, hookVars, authError>>

\* supabase.auth.getSession().then(...) of the mount effect
GetSessionResolved ==
    /\ getSessionPending
    /\ getSessionPending' = FALSE
    /\ session' = authSession
    /\ user' = SessionUser(authSession)
    /\ IF authSession # <<>>
       THEN StartFetch(authSession[1]) /\ UNCHANGED loading
       ELSE loading' = FALSE /\ UNCHANGED inflight
    /\ UNCHANGED <<profile, role, authSession, timers, signOutPending>>
    /\ UNCHANGED <<storeVars, hookVars, authError>>

\* signInWithPassword succeeds: the service holds a new session and emits SIGNED_IN
SignedIn(u) ==
    /\ u \in AuthActors \cap users
    /\ Pending < MaxInFlight
    /\ authSession' = <<u, 1>>
    /\ OnAuthStateChange(<<u, 1>>)
    /\ UNCHANGED <<getSessionPending, inflight, signOutPending>>
    /\ UNCHANGED <<storeVars, hookVars, authError>>

\* the service renews the token and emits TOKEN_REFRESHED
TokenRefreshed ==
    /\ authSession # <<>>
    /\ authSession[2] < MaxToken
    /\ Pending < MaxInFlight
    /\ authSession' = <<authSession[1], authSession[2] + 1>>
    /\ OnAuthStateChange(<<authSession[1], authSession[2] + 1>>)
    /\ UNCHANGED <<getSessionPending, inflight, signOutPending>>
    /\ UNCHANGED <<storeVars, hookVars, authError>>

\* the session ends outside this provider (another tab, expiry): SIGNED_OUT
SignedOutEvent ==
    /\ authSession # <<>>
    /\ authSession' = <<>>
    /\ OnAuthStateChange(<<>>)
    /\ UNCHANGED <<getSessionPending, inflight, signOutPending>>
    /\ UNCHANGED <<storeVars, hookVars, authError>>

\* setTimeout(() => fetchUserData(session.user.id), 0) runs
RunTimer(userId) ==
    /\ timers[userId] > 0
    /\ timers' = [timers EXCEPT ![userId] = @ - 1]
    /\ StartFetch(userId)
    /\ UNCHANGED <<user, session, profile, role, loading, authSession,
                   getSessionPending, signOutPending>>
    /\ UNCHANGED <<storeVars, hookVars, authError>>

\* fetchUserData after Promise.all: each read came back with data or without
FetchComplete(userId, req, profileNetOk, roleNetOk) ==
    /\ inflight[<<userId, req>>] > 0
    /\ inflight' = [inflight EXCEPT ![<<userId, req>>] = @ - 1]
    /\ LET profileData == ProfileRead(userId, req, profileNetOk)
           roleData == RoleRead(userId, req, roleNetOk)
       IN /\ profile' = IF profileData # <<>> THEN profileData ELSE profile
          /\ role' = IF roleData # NULL THEN roleData ELSE role
    /\ loading' = FALSE
    /\ UNCHANGED <<user, session, authSession, getSessionPending, timers, signOutPending>>
    /\ UNCHANGED <<storeVars, hookVars, authError>>

\* signIn whose signInWithPassword answers with an error (invalid credentials,
\* network): the service emits no event and signIn returns { error }
SignInFails ==
    /\ authError' = "signIn"
    /\ UNCHANGED <<user, session, profile, role, loading, authSession,
                   getSessionPending, timers, inflight, signOutPending>>
    /\ UNCHANGED <<storeVars, hookVars>>

\* signUp that shows the spinner while it waits and leaves it on after an error
SignUpFailsLoading ==
    /\ authError' = "signUp"
    /\ loading' = TRUE
    /\ UNCHANGED <<user, session, profile, role, authSession,
                   getSessionPending, timers, inflight, signOutPending>>
    /\ UNCHANGED <<storeVars, hookVars>>

\* signUp whose supabase.auth.signUp answers with an error (duplicate email,
\* weak password, network): no actor is created and signUp returns { error }
SignUpFails ==
    /\ authError' = "signUp"
    /\ UNCHANGED <<user, session, profile, role, loading, authSession,
                   getSessionPending, timers, inflight, signOutPending>>
    /\ UNCHANGED <<storeVars, hookVars>>

\* signOut() up to its await
SignOutCall ==
    /\ ~signOutPending
    /\ signOutPending' = TRUE
    /\ UNCHANGED <<user, session, profile, role, loading, authSession,
                   getSessionPending, timers, inflight>>
    /\ UNCHANGED <<storeVars, hookVars, authError>>

SignOutOutcomes == {"ok", "error", "reject"}

\* supabase.auth.signOut() settles and signOut() runs to its end. "ok": the
\* service drops the session and emits SIGNED_OUT before it resolves; "error":
\* it resolves with { error }; "reject": the promise rejects and signOut() throws
SignOutSettle(outcome) ==
    /\ signOutPending
    /\ signOutPending' = FALSE
    /\ IF outcome = "reject"
       THEN UNCHANGED <<user, session, profile, role, loading, authSession>>
       ELSE /\ user' = NULL
            /\ session' = <<>>
            /\ profile' = <<>>
            /\ role' = NULL
            /\ IF outcome = "ok"
               THEN authSession' = <<>> /\ loading' = FALSE
               ELSE UNCHANGED <<authSession, loading>>
    /\ UNCHANGED <<getSessionPending, timers, inflight>>
    /\ UNCHANGED <<storeVars, hookVars, authError>>

\* a browser opens the application: any of the two actors may have a persisted
\* session; a2 holds one role row or none
InitAuth ==
    /\ users = {"a1", "a2"}
    /\ userRoles \in {{<<"a1", "admin">>} \cup r2 :
                         r2 \in {{}} \cup {{<<"a2", r>>} : r \in Roles}}
    /\ profiles = [u \in {"a1", "a2"} |-> [email |-> Email[u], full_name |-> <<"n1">>]]
    /\ tasks = <<>>
    /\ projects = <<>>
    /\ now = 1
    /\ saveRole = [c \in SaveRoleClients |-> IdleSave]
    /\ HooksInit
    /\ effectUser = NULL
    /\ user = NULL
    /\ session = <<>>
    /\ profile = <<>>
    /\ role = NULL
    /\ loading = TRUE
    /\ authSession \in {<<>>} \cup {<<u, 1>> : u \in AuthActors}
    /\ getSessionPending = TRUE
    /\ timers = [a \in AuthActors |-> 0]
    /\ inflight = [k \in FetchKeys |-> 0]
    /\ signOutPending = FALSE
    /\ authError = NULL

NextAuth ==
    \/ GetSessionResolved
    \/ \E u \in AuthActors : SignedIn(u)
    \/ TokenRefreshed
    \/ SignedOutEvent
    \/ \E u \in AuthActors : RunTimer(u)
    \/ \E k \in FetchKeys, p \in BOOLEAN, r \in BOOLEAN : FetchComplete(k[1], k[2], p, r)
    \/ SignOutCall
    \/ \E o \in SignOutOutcomes : SignOutSettle(o)
    \/ SignInFails
    \/ SignUpFails

SpecAuth == InitAuth /\ [][NextAuth]_vars

----------------------------------------------------------------------------
(* useTasks and useProjects in one browser: the hook's call, the store's      *)
(* answer, the toast, the rethrow and the refetch that follows a success.     *)
(* The mutating calls leave the dialogs to their caller: a next-state         *)
(* relation that runs them from a card or a page keeps dialogVars unchanged.  *)

\* the actor whose token the browser's requests carry
Requester == SessionUser(authSession)

\* what the store answers to an insert: the row is in ("done") or an error
TasksInsertResponse(uid, row) == IF TasksInsertOk(uid, row) THEN "done" ELSE "error"

\* what the store answers to update .. where id = t: "none" when the policies
\* leave no row to update (no error), "error" when the new row fails the check
\* or a foreign key, "done" when the row is updated
TasksUpdateResponse(uid, t, updateData) ==
    IF \/ t \notin DOMAIN tasks
       \/ ~TasksSelectPolicy(uid, tasks[t])
       \/ ~TasksUpdatePolicy(uid, tasks[t])
    THEN "none"
    ELSE IF TasksUpdateApplies(uid, t, updateData) THEN "done" ELSE "error"

ProjectsInsertResponse(uid, row) == IF ProjectsInsertOk(uid, row) THEN "done" ELSE "error"

ProjectsUpdateResponse(uid, p, projectData) ==
    IF \/ p \notin DOMAIN projects
       \/ ~ProjectsSelectPolicy(uid, projects[p])
       \/ ~ProjectsUpdatePolicy(uid, projects[p])
    THEN "none"
    ELSE IF ProjectsUpdateApplies(uid, p, projectData) THEN "done" ELSE "error"

\* select * from tasks / from projects over a table value, as actor uid
TasksView(uid, tbl) ==
    [t \in {x \in DOMAIN tbl : TasksSelectPolicy(uid, tbl[x])} |-> tbl[t]]

ProjectsView(uid, tbl) ==
    [p \in {x \in DOMAIN tbl : ProjectsSelectPolicy(uid, tbl[x])} |-> tbl[p]]

\* counts taken over the whole table, whatever the actor may read
TaskCountsAll(uid, tbl) ==
    LET ps == {tbl[t].project_id : t \in DOMAIN tbl} \ {NULL}
    IN [p \in ps |-> Cardinality({t \in DOMAIN tbl : tbl[t].project_id = p})]

\* fetchProjects' counts: the tasks the actor reads, counted per non-null project_id
TaskCounts(uid, tbl) ==
    LET view == TasksView(uid, tbl)
        ps == {view[t].project_id : t \in DOMAIN view} \ {NULL}
    IN [p \in ps |-> Cardinality({t \in DOMAIN view : view[t].project_id = p})]

\* the try branch after `if (error) throw error` and the catch branch
Succeeded(fn, rows, title) == [fn |-> fn, rows |-> rows, toast |-> title, thrown |-> FALSE]
Failed(fn, title) == [fn |-> fn, rows |-> 0, toast |-> title, thrown |-> TRUE]

\* the ids the store draws (gen_random_uuid()) while this browser is watched
HookTaskIds == {"t1"}
HookProjectIds == {"p1"}

\* the form the task dialog submits
DialogData ==
    {[status |-> s, assigned_to |-> u] : s \in {"pending", "completed"}, u \in Assignees}

\* the other browser's writes: insert into tasks, update tasks, insert into projects
OtherCreateTask(uid, taskData) ==
    /\ \E t \in HookTaskIds \ DOMAIN tasks :
         LET row == InsertedRow(uid, taskData) IN
         tasks' = IF TasksInsertOk(uid, row) THEN tasks @@ (t :> row) ELSE tasks
    /\ UNCHANGED <<users, userRoles, profiles, now, saveRole, projects>>
    /\ UNCHANGED <<authVars, hookVars>>

OtherCreateProject(uid, projectData) ==
    /\ \E p \in HookProjectIds \ DOMAIN projects :
         LET row == ProjectRow(uid, projectData) IN
         projects' = IF ProjectsInsertOk(uid, row) THEN projects @@ (p :> row) ELSE projects
    /\ UNCHANGED <<users, userRoles, profiles, now, saveRole, tasks>>
    /\ UNCHANGED <<authVars, hookVars>>

\* useTasks.fetchData (refetch, and the effect on user): a failed select leaves
\* the lists as they are
FetchData(ok) ==
    /\ user # NULL
    /\ hookTasks' = IF ok THEN TasksView(Requester, tasks) ELSE hookTasks
    /\ tasksLoading' = FALSE
    /\ UNCHANGED <<storeVars, authVars, hookProjects, hookTaskCounts, call,
                   projectsLoading, asyncVars, dialogVars>>

\* useProjects.fetchProjects
FetchProjects(ok) ==
    /\ user # NULL
    /\ hookProjects' = IF ok THEN ProjectsView(Requester, projects) ELSE hookProjects
    /\ hookTaskCounts' = IF ok THEN TaskCounts(Requester, tasks) ELSE hookTaskCounts
    /\ projectsLoading' = FALSE
    /\ UNCHANGED <<storeVars, authVars, hookTasks, call, tasksLoading, asyncVars,
                   dialogVars>>

\* useTasks.createTask in the browser: netOk, the request reaches the store
\* and its answer comes back; fetchOk, the selects of the refetch succeed
CreateTaskCall(taskData, netOk, fetchOk) ==
    /\ user # NULL
    /\ \E t \in HookTaskIds \ DOMAIN tasks :
         LET row == InsertedRow(user, taskData)
             ok == netOk /\ TasksInsertResponse(Requester, row) = "done"
         IN /\ tasks' = IF ok THEN tasks @@ (t :> row) ELSE tasks
            /\ call' = IF ok THEN Succeeded("createTask", 1, "Task created successfully")
                             ELSE Failed("createTask", "Error creating task")
            /\ hookTasks' = IF ok /\ fetchOk THEN TasksView(Requester, tasks') ELSE hookTasks
            /\ tasksLoading' = IF ok THEN FALSE ELSE tasksLoading
    /\ UNCHANGED <<users, userRoles, profiles, now, saveRole, projects, hookProjects>>
    /\ UNCHANGED <<authVars, hookTaskCounts, projectsLoading, asyncVars>>

\* updateTask that shows the change in the list before the store has answered
UpdateTaskCallOptimistic(taskId, taskData, netOk, fetchOk) ==
    /\ user # NULL
    /\ taskId \in DOMAIN hookTasks
    /\ LET response == IF netOk THEN TasksUpdateResponse(Requester, taskId, UpdateData(taskData))
                                ELSE "error"
       IN /\ tasks' = IF response = "done"
                      THEN TasksAfterUpdate(Requester, taskId, UpdateData(taskData))
                      ELSE tasks
          /\ call' = IF response = "error"
                     THEN Failed("updateTask", "Error updating task")
                     ELSE Succeeded("updateTask", IF response = "done" THEN 1 ELSE 0,
                                    "Task updated successfully")
          /\ hookTasks' = IF response # "error" /\ fetchOk
                          THEN TasksView(Requester, tasks')
                          ELSE [hookTasks EXCEPT ![taskId] = UpdatedRow(@, UpdateData(taskData))]
          /\ tasksLoading' = IF response # "error" THEN FALSE ELSE tasksLoading
    /\ UNCHANGED <<users, userRoles, profiles, now, saveRole, projects, hookProjects>>
    /\ UNCHANGED <<authVars, hookTaskCounts, projectsLoading, asyncVars>>

\* useTasks.updateTask in the browser, on a task of the list
UpdateTaskCall(taskId, taskData, netOk, fetchOk) ==
    /\ user # NULL
    /\ taskId \in DOMAIN hookTasks
    /\ LET response == IF netOk THEN TasksUpdateResponse(Requester, taskId, UpdateData(taskData))
                                ELSE "error"
       IN /\ tasks' = IF response = "done"
                      THEN TasksAfterUpdate(Requester, taskId, UpdateData(taskData))
                      ELSE tasks
          /\ call' = IF response = "error"
                     THEN Failed("updateTask", "Error updating task")
                     ELSE Succeeded("updateTask", IF response = "done" THEN 1 ELSE 0,
                                    "Task updated successfully")
          /\ hookTasks' = IF response # "error" /\ fetchOk
                          THEN TasksView(Requester, tasks')
                          ELSE hookTasks
          /\ tasksLoading' = IF response # "error" THEN FALSE ELSE tasksLoading
    /\ UNCHANGED <<users, userRoles, profiles, now, saveRole, projects, hookProjects>>
    /\ UNCHANGED <<authVars, hookTaskCounts, projectsLoading, asyncVars>>

ToggleTaskCompleteCall(taskId, completed, netOk, fetchOk) ==
    UpdateTaskCall(taskId, ToggleData(completed), netOk, fetchOk)

\* useProjects.createProject in the browser
CreateProjectCall(projectData, netOk, fetchOk) ==
    /\ user # NULL
    /\ \E p \in HookProjectIds \ DOMAIN projects :
         LET row == ProjectRow(user, projectData)
             ok == netOk /\ ProjectsInsertResponse(Requester, row) = "done"
         IN /\ projects' = IF ok THEN projects @@ (p :> row) ELSE projects
            /\ call' = IF ok THEN Succeeded("createProject", 1, "Project created successfully")
                             ELSE Failed("createProject", "Error creating project")
            /\ hookProjects' = IF ok /\ fetchOk THEN ProjectsView(Requester, projects')
                               ELSE hookProjects
            /\ hookTaskCounts' = IF ok /\ fetchOk THEN TaskCounts(Requester, tasks)
                                 ELSE hookTaskCounts
            /\ projectsLoading' = IF ok THEN FALSE ELSE projectsLoading
    /\ UNCHANGED <<users, userRoles, profiles, now, saveRole, tasks, hookTasks>>
    /\ UNCHANGED <<authVars, tasksLoading, asyncVars>>

\* useProjects.updateProject in the browser, on a project of the list
UpdateProjectCall(projectId, projectData, netOk, fetchOk) ==
    /\ user # NULL
    /\ projectId \in DOMAIN hookProjects
    /\ LET response == IF netOk THEN ProjectsUpdateResponse(Requester, projectId, projectData)
                                ELSE "error"
       IN /\ projects' = IF response = "done"
                         THEN ProjectsAfterUpdate(Requester, projectId, projectData)
                         ELSE projects
          /\ call' = IF response = "error"
                     THEN Failed("updateProject", "Error updating project")
                     ELSE Succeeded("updateProject", IF response = "done" THEN 1 ELSE 0,
                                    "Project updated successfully")
          /\ hookProjects' = IF response # "error" /\ fetchOk
                             THEN ProjectsView(Requester, projects')
                             ELSE hookProjects
          /\ hookTaskCounts' = IF response # "error" /\ fetchOk
                               THEN TaskCounts(Requester, tasks)
                               ELSE hookTaskCounts
          /\ projectsLoading' = IF response # "error" THEN FALSE ELSE projectsLoading
    /\ UNCHANGED <<users, userRoles, profiles, now, saveRole, tasks, hookTasks>>
    /\ UNCHANGED <<authVars, tasksLoading, asyncVars>>

\* the browser of a2, signed in and resolved, whatever a2's role rows; a1 is an
\* admin working in another browser, a3 an employee
HookUser == "a2"
OtherUser == "a1"

InitHooks ==
    /\ users = Actors
    /\ userRoles \in {{<<"a1", "admin">>, <<"a3", "employee">>} \cup r2 :
                         r2 \in {{}} \cup {{<<HookUser, r>>} : r \in Roles}}
    /\ profiles = [u \in Actors |-> [email |-> Email[u], full_name |-> <<"n1">>]]
    /\ tasks = <<>>
    /\ projects = <<>>
    /\ now = 1
    /\ saveRole = [c \in SaveRoleClients |-> IdleSave]
    /\ user = HookUser
    /\ session = <<HookUser, 1>>
    /\ authSession = <<HookUser, 1>>
    /\ profile = ProfileData(HookUser)
    /\ role = RoleRead(HookUser, HookUser, TRUE)
    /\ loading = FALSE
    /\ getSessionPending = FALSE
    /\ timers = [a \in AuthActors |-> 0]
    /\ inflight = [k \in FetchKeys |-> 0]
    /\ signOutPending = FALSE
    /\ authError = NULL
    /\ HooksInit
    /\ effectUser = HookUser

NextHooks ==
    \/ \E ok \in BOOLEAN : FetchData(ok)
    \/ \E ok \in BOOLEAN : FetchProjects(ok)
    \/ \E d \in DialogData, netOk \in BOOLEAN, fetchOk \in BOOLEAN :
          CreateTaskCall(d, netOk, fetchOk) /\ UNCHANGED dialogVars
    \/ \E t \in HookTaskIds, d \in DialogData, netOk \in BOOLEAN, fetchOk \in BOOLEAN :
          UpdateTaskCall(t, d, netOk, fetchOk) /\ UNCHANGED dialogVars
    \/ \E t \in HookTaskIds, c \in BOOLEAN, netOk \in BOOLEAN, fetchOk \in BOOLEAN :
          ToggleTaskCompleteCall(t, c, netOk, fetchOk) /\ UNCHANGED dialogVars
    \/ \E d \in ProjectData, netOk \in BOOLEAN, fetchOk \in BOOLEAN :
          CreateProjectCall(d, netOk, fetchOk) /\ UNCHANGED dialogVars
    \/ \E p \in HookProjectIds, d \in ProjectData, netOk \in BOOLEAN, fetchOk \in BOOLEAN :
          UpdateProjectCall(p, d, netOk, fetchOk) /\ UNCHANGED dialogVars
    \/ \E d \in DialogData : OtherCreateTask(OtherUser, d)
    \/ \E t \in HookTaskIds, d \in DialogData : updateTask(OtherUser, t, d)
    \/ \E d \in ProjectData : OtherCreateProject(OtherUser, d)

SpecHooks == InitHooks /\ [][NextHooks]_vars

----------------------------------------------------------------------------
(* useTasks with its fetches in flight: a call of fetchData is answered by   *)
(* the store when it is sent and sets the hook's state when the answer       *)
(* arrives; calls that overlap are answered in any order                     *)

MaxFetches == 2

\* what fetchData's selects bring back from table tbl: the rows, or an error
FetchAnswer(uid, tbl, ok) ==
    [ok |-> ok, tasks |-> IF ok THEN TasksView(uid, tbl) ELSE <<>>]

\* fetchData up to its awaits, called by the effect or through refetch
FetchDataRequest(ok) ==
    /\ user # NULL
    /\ Cardinality(taskFetches) < MaxFetches
    /\ taskFetches' = taskFetches \cup {FetchAnswer(Requester, tasks, ok)}
    /\ UNCHANGED <<storeVars, authVars, hookTasks, hookProjects, call, hookTaskCounts,
                   tasksLoading, projectsLoading, projectFetches, effectUser, dialogVars>>

\* what the catch of fetchData and of fetchProjects shows
Toasted(fn, title) == [fn |-> fn, rows |-> 0, toast |-> title, thrown |-> FALSE]

\* a fetchData whose setLoading(false) closes the try block
FetchDataResponseNoFinally(answer) ==
    /\ answer \in taskFetches
    /\ taskFetches' = taskFetches \ {answer}
    /\ hookTasks' = IF answer.ok THEN answer.tasks ELSE hookTasks
    /\ call' = IF answer.ok THEN call ELSE Toasted("fetchData", "Error loading data")
    /\ tasksLoading' = IF answer.ok THEN FALSE ELSE tasksLoading
    /\ UNCHANGED <<storeVars, authVars, hookProjects, hookTaskCounts,
                   projectsLoading, projectFetches, effectUser, dialogVars>>

\* fetchData from its awaits to its end: setTasks or the catch, then finally
FetchDataResponse(answer) ==
    /\ answer \in taskFetches
    /\ taskFetches' = taskFetches \ {answer}
    /\ hookTasks' = IF answer.ok THEN answer.tasks ELSE hookTasks
    /\ call' = IF answer.ok THEN call ELSE Toasted("fetchData", "Error loading data")
    /\ tasksLoading' = FALSE
    /\ UNCHANGED <<storeVars, authVars, hookProjects, hookTaskCounts,
                   projectsLoading, projectFetches, effectUser, dialogVars>>

\* createTask up to the await of its refetch
CreateTaskRequest(taskData, netOk, fetchOk) ==
    /\ user # NULL
    /\ Cardinality(taskFetches) < MaxFetches
    /\ \E t \in HookTaskIds \ DOMAIN tasks :
         LET row == InsertedRow(user, taskData)
             ok == netOk /\ TasksInsertResponse(Requester, row) = "done"
         IN /\ tasks' = IF ok THEN tasks @@ (t :> row) ELSE tasks
            /\ call' = IF ok THEN Succeeded("createTask", 1, "Task created successfully")
                             ELSE Failed("createTask", "Error creating task")
            /\ taskFetches' = IF ok
                              THEN taskFetches \cup {FetchAnswer(Requester, tasks', fetchOk)}
                              ELSE taskFetches
    /\ UNCHANGED <<users, userRoles, profiles, now, saveRole, projects>>
    /\ UNCHANGED <<authVars, hookTasks, hookProjects, hookTaskCounts, tasksLoading,
                   projectsLoading, projectFetches, effectUser, dialogVars>>

\* updateTask up to the await of its refetch, on a task of the list
UpdateTaskRequest(taskId, taskData, netOk, fetchOk) ==
    /\ user # NULL
    /\ taskId \in DOMAIN hookTasks
    /\ Cardinality(taskFetches) < MaxFetches
    /\ LET response == IF netOk THEN TasksUpdateResponse(Requester, taskId, UpdateData(taskData))
                                ELSE "error"
       IN /\ tasks' = IF response = "done"
                      THEN TasksAfterUpdate(Requester, taskId, UpdateData(taskData))
                      ELSE tasks
          /\ call' = IF response = "error"
                     THEN Failed("updateTask", "Error updating task")
                     ELSE Succeeded("updateTask", IF response = "done" THEN 1 ELSE 0,
                                    "Task updated successfully")
          /\ taskFetches' = IF response # "error"
                            THEN taskFetches \cup {FetchAnswer(Requester, tasks', fetchOk)}
                            ELSE taskFetches
    /\ UNCHANGED <<users, userRoles, profiles, now, saveRole, projects>>
    /\ UNCHANGED <<authVars, hookTasks, hookProjects, hookTaskCounts, tasksLoading,
                   projectsLoading, projectFetches, effectUser, dialogVars>>

ToggleTaskCompleteRequest(taskId, completed, netOk, fetchOk) ==
    UpdateTaskRequest(taskId, ToggleData(completed), netOk, fetchOk)

\* the pages show a spinner in place of their controls while loading is on
ControlsShown == ~tasksLoading

\* the browser of a2 alone on the store; every select of a fetch is answered
NextFetch ==
    \/ FetchDataRequest(TRUE)
    \/ \E answer \in taskFetches : FetchDataResponse(answer)
    \/ \E d \in DialogData, netOk \in BOOLEAN :
          ControlsShown /\ CreateTaskRequest(d, netOk, TRUE)
    \/ \E t \in HookTaskIds, d \in DialogData, netOk \in BOOLEAN :
          ControlsShown /\ UpdateTaskRequest(t, d, netOk, TRUE)
    \/ \E t \in HookTaskIds, c \in BOOLEAN, netOk \in BOOLEAN :
          ControlsShown /\ ToggleTaskCompleteRequest(t, c, netOk, TRUE)

SpecFetch == InitHooks /\ [][NextFetch]_vars

----------------------------------------------------------------------------
(* The loading flags from the opening of the browser on: AuthProvider        *)
(* mounts first, and the Projects page, with useProjects and useTasks,       *)
(* mounts under ProtectedRoute once the provider has a user                  *)

\* what fetchProjects' two selects bring back: the rows and the counts, or an error
ProjectsAnswer(uid, ok) ==
    [ok |-> ok,
     projects |-> IF ok THEN ProjectsView(uid, projects) ELSE <<>>,
     counts |-> IF ok THEN TaskCounts(uid, tasks) ELSE <<>>]

\* fetchProjects from its awaits to its end
FetchProjectsResponse(answer) ==
    /\ answer \in projectFetches
    /\ projectFetches' = projectFetches \ {answer}
    /\ hookProjects' = IF answer.ok THEN answer.projects ELSE hookProjects
    /\ hookTaskCounts' = IF answer.ok THEN answer.counts ELSE hookTaskCounts
    /\ call' = IF answer.ok THEN call ELSE Toasted("fetchProjects", "Error loading projects")
    /\ projectsLoading' = FALSE
    /\ UNCHANGED <<storeVars, authVars, hookTasks, tasksLoading, taskFetches,
                   effectUser, dialogVars>>

\* ProtectedRoute renders the page: both hooks start with loading on and their
\* effects call fetchData and fetchProjects with the user of that render
MountPage(tasksOk, projectsOk) ==
    /\ effectUser = NULL
    /\ ~loading
    /\ user # NULL
    /\ effectUser' = user
    /\ hookTasks' = <<>>
    /\ hookProjects' = <<>>
    /\ hookTaskCounts' = <<>>
    /\ call' = NoCall
    /\ tasksLoading' = TRUE
    /\ projectsLoading' = TRUE
    /\ taskFetches' = {FetchAnswer(Requester, tasks, tasksOk)}
    /\ projectFetches' = {ProjectsAnswer(Requester, projectsOk)}
    /\ UNCHANGED <<storeVars, authVars, dialogVars>>

\* ProtectedRoute navigates away once the user is gone: the hooks are dropped
\* and answers still on their way set nothing
UnmountPage ==
    /\ effectUser # NULL
    /\ user = NULL
    /\ effectUser' = NULL
    /\ taskFetches' = {}
    /\ projectFetches' = {}
    /\ UNCHANGED <<storeVars, authVars, hookTasks, hookProjects, hookTaskCounts, call,
                   tasksLoading, projectsLoading, dialogVars>>

\* the browser from its opening to a sign-out event: the page is up only
\* between the provider's user being set and the user being gone
NextLoading ==
    \/ GetSessionResolved
    \/ SignedOutEvent
    \/ \E k \in FetchKeys, p \in BOOLEAN, r \in BOOLEAN : FetchComplete(k[1], k[2], p, r)
    \/ \E tasksOk \in BOOLEAN, projectsOk \in BOOLEAN : MountPage(tasksOk, projectsOk)
    \/ UnmountPage
    \/ \E answer \in taskFetches : FetchDataResponse(answer)
    \/ \E answer \in projectFetches : FetchProjectsResponse(answer)

\* every call to the authentication service and to the store is answered
FairLoading ==
    /\ WF_vars(GetSessionResolved)
    /\ WF_vars(\E k \in FetchKeys, p \in BOOLEAN, r \in BOOLEAN :
                  FetchComplete(k[1], k[2], p, r))
    /\ WF_vars(\E answer \in taskFetches : FetchDataResponse(answer))
    /\ WF_vars(\E answer \in projectFetches : FetchProjectsResponse(answer))

SpecLoading == InitAuth /\ [][NextLoading]_vars /\ FairLoading

----------------------------------------------------------------------------
(* TaskDialog and ProjectDialog on the Projects page: handleSave up to its   *)
(* await, and from the settling of onSave to its end                         *)

MaxTitleLen == 2

TitleChars == {" ", "a"}

\* what can stand in the title or name field when Save is pressed
Titles == UNION {[1..n -> TitleChars] : n \in 0..MaxTitleLen}

RECURSIVE TrimStart(_)
TrimStart(s) == IF s # <<>> /\ Head(s) = " " THEN TrimStart(Tail(s)) ELSE s

RECURSIVE TrimEnd(_)
TrimEnd(s) == IF s # <<>> /\ s[Len(s)] = " " THEN TrimEnd(SubSeq(s, 1, Len(s) - 1)) ELSE s

\* String.prototype.trim on titles
Trim(s) == TrimEnd(TrimStart(s))

\* the other fields of the task dialog, left at what its effect sets for a new task
DialogDefaults == [status |-> "pending", assigned_to |-> NULL]

\* the page opens the dialog on a task of its list or on none
OpenTaskDialog(t) ==
    /\ ~taskDialog.open
    /\ t \in DOMAIN hookTasks \cup {NULL}
    /\ taskDialog' = [taskDialog EXCEPT !.open = TRUE, !.task = t]
    /\ UNCHANGED <<storeVars, authVars, hookTasks, hookProjects, call, hookTaskCounts,
                   tasksLoading, projectsLoading, asyncVars, projectDialog>>

\* Cancel, or the dialog's own onOpenChange(false)
CancelTaskDialog ==
    /\ taskDialog.open
    /\ taskDialog' = [taskDialog EXCEPT !.open = FALSE]
    /\ UNCHANGED <<storeVars, authVars, hookTasks, hookProjects, call, hookTaskCounts,
                   tasksLoading, projectsLoading, asyncVars, projectDialog>>

\* a handleSave that tests the title as it was typed
TaskDialogHandleSaveUntrimmed(title) ==
    /\ taskDialog.open
    /\ ~taskDialog.isLoading
    /\ IF title = <<>>
       THEN UNCHANGED taskDialog
       ELSE taskDialog' = [taskDialog EXCEPT !.isLoading = TRUE, !.sent = Trim(title),
                                           !.sentId = taskDialog.task]
    /\ UNCHANGED <<storeVars, authVars, hookTasks, hookProjects, call, hookTaskCounts,
                   tasksLoading, projectsLoading, asyncVars, projectDialog>>

\* TaskDialog.handleSave up to its await, with title in the field; the button
\* is disabled while isLoading
TaskDialogHandleSave(title) ==
    /\ taskDialog.open
    /\ ~taskDialog.isLoading
    /\ IF Trim(title) = <<>>
       THEN UNCHANGED taskDialog
       ELSE taskDialog' = [taskDialog EXCEPT !.isLoading = TRUE, !.sent = Trim(title),
                                           !.sentId = taskDialog.task]
    /\ UNCHANGED <<storeVars, authVars, hookTasks, hookProjects, call, hookTaskCounts,
                   tasksLoading, projectsLoading, asyncVars, projectDialog>>

\* the page's handleSaveTask runs and TaskDialog.handleSave goes on to its end:
\* onOpenChange(false) unless onSave threw, then finally
TaskDialogSaveSettles(netOk, fetchOk) ==
    /\ taskDialog.isLoading
    /\ IF taskDialog.sentId = NULL
       THEN CreateTaskCall(DialogDefaults, netOk, fetchOk)
       ELSE UpdateTaskCall(taskDialog.sentId, DialogDefaults, netOk, fetchOk)
    /\ taskDialog' = [taskDialog EXCEPT !.isLoading = FALSE,
                                        !.open = IF call'.thrown THEN @ ELSE FALSE]
    /\ UNCHANGED projectDialog

OpenProjectDialog(p) ==
    /\ ~projectDialog.open
    /\ p \in DOMAIN hookProjects \cup {NULL}
    /\ projectDialog' = [projectDialog EXCEPT !.open = TRUE, !.project = p]
    /\ UNCHANGED <<storeVars, authVars, hookTasks, hookProjects, call, hookTaskCounts,
                   tasksLoading, projectsLoading, asyncVars, taskDialog>>

CancelProjectDialog ==
    /\ projectDialog.open
    /\ projectDialog' = [projectDialog EXCEPT !.open = FALSE]
    /\ UNCHANGED <<storeVars, authVars, hookTasks, hookProjects, call, hookTaskCounts,
                   tasksLoading, projectsLoading, asyncVars, taskDialog>>

\* ProjectDialog.handleSave up to its await, with name in the field
ProjectDialogHandleSave(name) ==
    /\ projectDialog.open
    /\ ~projectDialog.isLoading
    /\ IF Trim(name) = <<>>
       THEN UNCHANGED projectDialog
       ELSE projectDialog' = [projectDialog EXCEPT !.isLoading = TRUE, !.sent = Trim(name),
                                                 !.sentId = projectDialog.project]
    /\ UNCHANGED <<storeVars, authVars, hookTasks, hookProjects, call, hookTaskCounts,
                   tasksLoading, projectsLoading, asyncVars, taskDialog>>

\* the page's handleSaveProject runs and ProjectDialog.handleSave goes on to its end
ProjectDialogSaveSettles(netOk, fetchOk) ==
    /\ projectDialog.isLoading
    /\ IF projectDialog.sentId = NULL
       THEN CreateProjectCall([name |-> projectDialog.sent], netOk, fetchOk)
       ELSE UpdateProjectCall(projectDialog.sentId, [name |-> projectDialog.sent],
                              netOk, fetchOk)
    /\ projectDialog' = [projectDialog EXCEPT !.isLoading = FALSE,
                                              !.open = IF call'.thrown THEN @ ELSE FALSE]
    /\ UNCHANGED taskDialog

NextDialogs ==
    \/ \E t \in HookTaskIds \cup {NULL} : OpenTaskDialog(t)
    \/ CancelTaskDialog
    \/ \E title \in Titles : TaskDialogHandleSave(title)
    \/ \E netOk \in BOOLEAN, fetchOk \in BOOLEAN : TaskDialogSaveSettles(netOk, fetchOk)
    \/ \E p \in HookProjectIds \cup {NULL} : OpenProjectDialog(p)
    \/ CancelProjectDialog
    \/ \E name \in Titles : ProjectDialogHandleSave(name)
    \/ \E netOk \in BOOLEAN, fetchOk \in BOOLEAN : ProjectDialogSaveSettles(netOk, fetchOk)

SpecDialogs == InitHooks /\ [][NextDialogs]_vars

----------------------------------------------------------------------------
(* Claims about the store: C1 .. C5 *)

\* C1: for every actor whose only role is employee, in every reachable store
\* state, the task select returns only tasks whose assigned_to is that actor:
\* never a task assigned to another actor, never an unassigned task.
C1_EmployeeReadsOnlyOwnTasks ==
    \A a \in users :
        RolesOf(a) = {"employee"} =>
            \A t \in TasksSelect(a) : tasks[t].assigned_to = a

\* an employee reads an own task while the store also holds a task assigned to
\* another actor, which the select leaves out
C1_Witness ==
    \E a \in users :
        /\ RolesOf(a) = {"employee"}
        /\ TasksSelect(a) # {}
        /\ \E t \in DOMAIN tasks : tasks[t].assigned_to \notin {a, NULL} /\ t \notin TasksSelect(a)

\* a step that is a write request on user_roles sent by the client of actor uid
RoleWriteBy(uid) ==
    \/ \E target \in Actors, r \in Roles : HandleSaveRoleDelete(uid, target, r)
    \/ HandleSaveRoleInsert(uid)
    \/ \E u \in Actors, r \in Roles : RolesInsert(uid, u, r)
    \/ \E u \in Actors : RolesDelete(uid, u)
    \/ \E u \in Actors, r \in Roles, r2 \in Roles : RolesUpdate(uid, u, r, r2)

ProfileUpdateStep ==
    \E uid \in Actors, target \in Actors, n \in Names : UpdateProfile(uid, target, n)

SignUpStep == \E u \in Actors, n \in Names \cup {NULL} : SignUp(u, n)

C3_ExactlyOneRole ==
    \A u \in users : Cardinality(RolesOf(u)) = 1

\* C4: in every reachable state, for every task row, completed_at is non-null
\* if and only if status = completed.
C4_CompletedAtIffCompleted ==
    \A t \in DOMAIN tasks :
        (tasks[t].completed_at # 0) <=> (tasks[t].status = "completed")

\* C5: in every reachable state, an updateTask (or toggleTaskComplete) carrying
\* a status that the store applies to the row leaves the row with that status,
\* with completed_at non-null when the status is completed and null when it is
\* pending or in_progress, whatever the row's status was; toggle(true) yields
\* completed and toggle(false) yields pending.
C5_UpdateSetsCompletedAt ==
    \A uid \in users, t \in DOMAIN tasks :
        /\ \A d \in TaskData :
             (Has(d, "status") /\ TasksUpdateApplies(uid, t, UpdateData(d))) =>
                 LET row == TasksAfterUpdate(uid, t, UpdateData(d))[t] IN
                 /\ row.status = d.status
                 /\ (d.status = "completed" => row.completed_at # 0)
                 /\ (d.status # "completed" => row.completed_at = 0)
        /\ \A c \in BOOLEAN :
             TasksUpdateApplies(uid, t, UpdateData(ToggleData(c))) =>
                 LET row == TasksAfterUpdate(uid, t, UpdateData(ToggleData(c)))[t] IN
                 /\ row.status = IF c THEN "completed" ELSE "pending"
                 /\ (row.completed_at # 0) <=> c

\* a task completed through updateTask after the clock advanced, beside a task
\* an admin created for a2 that is in progress
C5_Witness ==
    /\ \E t \in DOMAIN tasks : tasks[t].status = "completed" /\ tasks[t].completed_at = 2
    /\ \E t \in DOMAIN tasks : tasks[t].status = "in_progress" /\ tasks[t].created_by = "a1"
                                /\ tasks[t].assigned_to = "a2"

----------------------------------------------------------------------------
(* Claims about the session manager: C6 .. C10 *)

\* a step in which some fetchUserData call runs from Promise.all to its end
FetchCompletion ==
    \E k \in FetchKeys, p \in BOOLEAN, r \in BOOLEAN : FetchComplete(k[1], k[2], p, r)

\* a step in which a fetchUserData call for u runs from Promise.all to its end
FetchCompletionFor(u) ==
    \E req \in AuthActors \cup {NULL}, p \in BOOLEAN, r \in BOOLEAN :
        FetchComplete(u, req, p, r)

\* C6: when a resolution finishes after a sign-out left the manager without a
\* user, its result is discarded: profile and role stay null and the state
\* stays unauthenticated.
C6_StaleFetchDiscarded ==
    [][ (user = NULL /\ FetchCompletion) =>
            (user' = NULL /\ profile' = <<>> /\ role' = NULL) ]_vars

\* C7: in every reachable state profile and role are both null, or both are
\* the values read for the current session's user.
C7_NoPartialResult ==
    \/ profile = <<>> /\ role = NULL
    \/ /\ user # NULL
       /\ profile = ProfileData(user)
       /\ role \in RolesOf(user)

\* C8: the authenticated state (user non-null, loading false) of a user is
\* entered only by the step that completes the profile and role reads for that
\* user, also for a sign-in that arrives after startup found no session.
C8_AuthenticatedOnlyAfterReads ==
    [][ (user' # NULL /\ ~loading') =>
            \/ user = user' /\ ~loading
            \/ FetchCompletionFor(user') ]_vars

\* C9: when both reads of a fetch fail while a session is present, the session
\* is retained, profile and role are null afterwards and no role flag is true,
\* whatever role was in the state before.
C9_FailedFetchLeavesNoRole ==
    [][ \A k \in FetchKeys :
          (session # <<>> /\ FetchComplete(k[1], k[2], FALSE, FALSE)) =>
              /\ session' = session
              /\ profile' = <<>>
              /\ role' = NULL
              /\ ~isAdmin' /\ ~isDepartmentHead'
              /\ ~canManageTasks' /\ ~canManageProjects' ]_vars

\* C10: after signOut() has returned or thrown, whatever the outcome of the
\* service call, user, session, profile and role are null.
C10_SignOutAlwaysClears ==
    [][ (\E o \in SignOutOutcomes : SignOutSettle(o)) =>
            (user' = NULL /\ session' = <<>> /\ profile' = <<>> /\ role' = NULL) ]_vars

----------------------------------------------------------------------------
(* Claims about the session manager and sign-up: C11 .. C13 *)

\* a fetchUserData call for the current user is scheduled or awaiting its reads
Resolving ==
    /\ user # NULL
    /\ \/ timers[user] > 0
       \/ \E req \in AuthActors \cup {NULL} : inflight[<<user, req>>] > 0

\* C11: in every reachable state at most one of isAdmin, isDepartmentHead,
\* isEmployee is true, and all three are false when user is null or a
\* profile/role fetch for the current user is in flight.
C11_RoleFlagsOnlyWhenResolved ==
    /\ ~(isAdmin /\ isDepartmentHead)
    /\ ~(isAdmin /\ isEmployee)
    /\ ~(isDepartmentHead /\ isEmployee)
    /\ (user = NULL \/ Resolving) => (~isAdmin /\ ~isDepartmentHead /\ ~isEmployee)

\* session, profile and role are loaded and no fetch is outstanding
AuthenticatedState ==
    /\ user # NULL
    /\ session # <<>>
    /\ ~loading
    /\ profile # <<>>
    /\ role # NULL
    /\ ~Resolving

\* C12: a TOKEN_REFRESHED event received in the authenticated state replaces
\* the session and leaves the user, the profile, the role and loading = false
\* as they were, with no profile/role fetch in flight afterwards.
C12_TokenRefreshKeepsState ==
    [][ (AuthenticatedState /\ TokenRefreshed) =>
            /\ session' = authSession'
            /\ user' = user
            /\ profile' = profile
            /\ role' = role
            /\ ~loading'
            /\ ~Resolving' ]_vars

\* C13: the step that creates an actor adds, in that same step, the actor's
\* one profile row (its id, its email, the name given at sign-up) and exactly
\* one role row, with role employee, and touches no other actor's rows.
C13_SignUpCreatesProfileAndRole ==
    [][ users' # users =>
          \E u \in Actors \ users :
            /\ users' = users \cup {u}
            /\ DOMAIN profiles' = DOMAIN profiles \cup {u}
            /\ \A v \in DOMAIN profiles : profiles'[v] = profiles[v]
            /\ profiles'[u].email = Email[u]
            /\ \A n \in Names : SignUp(u, n) => profiles'[u].full_name = <<n>>
            /\ {row \in userRoles' : row[1] = u} = {<<u, "employee">>}
            /\ {row \in userRoles' : row[1] # u} = userRoles
      ]_vars

\* a3 has signed up with a name and still holds the rows the creation made
C13_Witness ==
    /\ "a3" \in users
    /\ "a3" \in DOMAIN profiles
    /\ profiles["a3"] = [email |-> Email["a3"], full_name |-> <<"n1">>]
    /\ RolesOf("a3") = {"employee"}

----------------------------------------------------------------------------
(* Claims about the projects and tasks policies: C14, C15 *)

\* C14: in every reachable state every existing actor reads all projects; a
\* project insert and an update of an existing project take effect exactly for
\* the actors whose role is department_head or admin; a delete of an existing
\* project takes effect exactly for the actors whose role is admin; an
\* employee's createProject is rejected.
C14_ProjectsPolicy ==
    \A uid \in users :
        LET manager == RolesOf(uid) \cap {"department_head", "admin"} # {} IN
        /\ ProjectsSelect(uid) = DOMAIN projects
        /\ \A d \in ProjectData :
             /\ ProjectsInsertOk(uid, ProjectRow(uid, d)) <=> manager
             /\ RolesOf(uid) = {"employee"} => ~ProjectsInsertOk(uid, ProjectRow(uid, d))
             /\ \A p \in DOMAIN projects :
                  /\ ProjectsUpdateApplies(uid, p, d) <=> manager
                  /\ ProjectsAfterUpdate(uid, p, d)[p].name = IF manager THEN d.name
                                                                ELSE projects[p].name
        /\ \A p \in DOMAIN projects :
             ProjectsDeleteApplies(uid, p) <=> "admin" \in RolesOf(uid)

\* a department head has created a project that holds a task, beside an
\* admin's project, while an employee exists
C14_Witness ==
    /\ \E uid \in users : RolesOf(uid) = {"employee"}
    /\ \E p \in DOMAIN projects :
         /\ RolesOf(projects[p].created_by) = {"department_head"}
         /\ \E t \in DOMAIN tasks : tasks[t].project_id = p
    /\ \E p \in DOMAIN projects :
         /\ projects[p].created_by = "a1"
         /\ projects[p].name = "pn2"

\* C15: in every reachable state a task insert is permitted exactly for the
\* actors whose role is department_head or admin; an update of an existing
\* task is permitted exactly when the task's assigned_to is the actor or the
\* actor's role is department_head or admin; a delete of an existing task is
\* permitted exactly for admin and department_head; an employee who is not
\* the assignee changes no field of the task.
C15_TaskWritePolicy ==
    \A uid \in users :
        LET manager == RolesOf(uid) \cap {"department_head", "admin"} # {} IN
        /\ \A d \in TaskData : TasksInsertOk(uid, InsertedRow(uid, d)) <=> manager
        /\ \A t \in DOMAIN tasks :
             /\ \A d \in TaskData :
                  /\ TasksUpdateApplies(uid, t, UpdateData(d)) <=>
                         (tasks[t].assigned_to = uid \/ manager)
                  /\ (RolesOf(uid) = {"employee"} /\ tasks[t].assigned_to # uid) =>
                         TasksAfterUpdate(uid, t, UpdateData(d)) = tasks
             /\ TasksDeleteApplies(uid, t) <=> manager

\* C18: in every reachable state, for every actor, task and field set, an
\* updateTask that the store applies, submitted again with the same arguments
\* at the same or a later time and with no write in between, leaves the row as
\* the first submission left it.
C18_UpdateTwiceIsUpdateOnce ==
    \A uid \in users, t \in DOMAIN tasks, d \in TaskData, later \in now .. MaxClock :
        TasksUpdateApplies(uid, t, UpdateDataAt(d, now)) =>
            LET once == UpdatedRow(tasks[t], UpdateDataAt(d, now))
                again == UpdatedRow(once, UpdateDataAt(d, later))
                twice == IF /\ TasksUpdatePolicy(uid, once)
                            /\ TasksUpdatePolicy(uid, again)
                            /\ TasksForeignKeys(again)
                         THEN again
                         ELSE once
            IN twice = once

----------------------------------------------------------------------------
(* Claims about the hooks: C16, C19 *)

\* C16: a mutating call of useTasks by an employee reports success (no error
\* raised, the success toast) only if the store changed the row: an updateTask
\* or toggleTaskComplete on a task not assigned to the employee, which the
\* update policy denies, is rethrown with the error toast and never ends with
\* 'Task updated successfully'.
C16_DeniedMutationIsAnError ==
    (RolesOf(Requester) = {"employee"} /\ call.fn \in {"createTask", "updateTask"}) =>
        /\ ~call.thrown => call.rows = 1
        /\ call.toast \in {"Task created successfully", "Task updated successfully"} =>
               call.rows = 1

\* a step in which a mutating hook call gets an error for an answer (the store
\* rejects the write or the request fails)
FailedMutation ==
    /\ tasks' = tasks
    /\ projects' = projects
    /\ \E netOk \in BOOLEAN, fetchOk \in BOOLEAN :
         \/ \E d \in DialogData :
              /\ ~netOk \/ TasksInsertResponse(Requester, InsertedRow(user, d)) = "error"
              /\ CreateTaskCall(d, netOk, fetchOk)
         \/ \E t \in HookTaskIds, d \in DialogData \cup {ToggleData(c) : c \in BOOLEAN} :
              /\ ~netOk \/ TasksUpdateResponse(Requester, t, UpdateData(d)) = "error"
              /\ UpdateTaskCall(t, d, netOk, fetchOk)
         \/ \E d \in ProjectData :
              /\ ~netOk \/ ProjectsInsertResponse(Requester, ProjectRow(user, d)) = "error"
              /\ CreateProjectCall(d, netOk, fetchOk)
         \/ \E p \in HookProjectIds, d \in ProjectData :
              /\ ~netOk \/ ProjectsUpdateResponse(Requester, p, d) = "error"
              /\ UpdateProjectCall(p, d, netOk, fetchOk)

\* C19: when createTask, updateTask, toggleTaskComplete, createProject or
\* updateProject gets an error, the hooks' task and project lists after the
\* call are the lists before it and the error is rethrown to the caller.
C19_FailedMutationKeepsLists ==
    [][ FailedMutation =>
            /\ hookTasks' = hookTasks
            /\ hookProjects' = hookProjects
            /\ call'.thrown
            /\ call'.rows = 0 ]_vars

\* an updateTask has been rethrown while the list shows a task that is not
\* completed, and the store holds that task as the list shows it
C19_Witness ==
    /\ call = Failed("updateTask", "Error updating task")
    /\ \E t \in DOMAIN hookTasks :
         /\ hookTasks[t].status = "pending"
         /\ t \in DOMAIN tasks
         /\ tasks[t] = hookTasks[t]

----------------------------------------------------------------------------
(* Claims about the policies as a whole: C17 *)

\* C17: what the permission table does not grant is rejected: in every
\* reachable state each actor has its profile and no other profile exists, no
\* client's insert or delete on profiles takes effect, an update of another
\* actor's profile changes nothing, and an insert, update or delete on
\* user_roles sent by an actor who is not an admin changes nothing.
C17_DenyByDefault ==
    /\ DOMAIN profiles = users
    /\ \A uid \in users, id \in Actors, n \in Names :
         /\ ~ProfilesInsertOk(uid, id)
         /\ ProfilesAfterDelete(uid, id) = profiles
         /\ id # uid => ProfilesAfterUpdate(uid, id, n) = profiles
    /\ \A uid \in users :
         ~has_role(uid, "admin") =>
             \A u \in Actors, r \in Roles :
                 /\ RolesAfterInsert(uid, u, r) = userRoles
                 /\ RolesAfterDelete(uid, u) = userRoles
                 /\ \A r2 \in Roles : RolesAfterUpdate(uid, u, r, r2) = userRoles

\* the employee a2 has sent handleSaveRole's delete against the admin a1, whose
\* role row is still there, and a3 has signed up and has its profile
C17_Witness ==
    /\ users = Actors
    /\ DOMAIN profiles = Actors
    /\ RolesOf("a2") = {"employee"}
    /\ saveRole["a2"].pc = "deleted"
    /\ saveRole["a2"].target = "a1"
    /\ RolesOf("a1") = {"admin"}

----------------------------------------------------------------------------
(* Claims about deletes and reads: C21, C22 *)

\* C21: in every reachable state, deleting a project or an actor that tasks
\* reference removes no task: every task is still there afterwards, the tasks
\* that referenced the deleted row with that reference (project_id,
\* assigned_to, created_by) null and nothing else changed.
C21_DeleteNullsReferences ==
    /\ \A p \in DOMAIN projects :
         LET after == TasksAfterProjectDelete(p) IN
         /\ DOMAIN after = DOMAIN tasks
         /\ \A t \in DOMAIN tasks :
              after[t] = IF tasks[t].project_id = p
                         THEN [tasks[t] EXCEPT !.project_id = NULL]
                         ELSE tasks[t]
    /\ \A u \in users :
         LET after == TasksAfterUserDelete(u) IN
         /\ DOMAIN after = DOMAIN tasks
         /\ \A t \in DOMAIN tasks :
              /\ after[t].assigned_to = IF tasks[t].assigned_to = u THEN NULL
                                        ELSE tasks[t].assigned_to
              /\ after[t].created_by = IF tasks[t].created_by = u THEN NULL
                                       ELSE tasks[t].created_by
              /\ after[t].status = tasks[t].status
              /\ after[t].completed_at = tasks[t].completed_at
              /\ after[t].project_id = tasks[t].project_id

\* rows that are not assigned to actor a
OtherRows(a) ==
    {[status |-> "pending", assigned_to |-> x, created_by |-> c, completed_at |-> 0,
      project_id |-> q] :
        x \in (Actors \cup {NULL}) \ {a}, c \in {a, "a1"}, q \in ProjectIds \cup {NULL}}

\* the task tables that differ from the store's in one task not assigned to a:
\* that task is absent, or present with any of the rows above
TaskVariants(a) ==
    LET others == {t \in TaskIds : t \notin DOMAIN tasks \/ tasks[t].assigned_to # a} IN
    {[t \in DOMAIN tasks \ {x} |-> tasks[t]] : x \in others}
    \cup {[t \in DOMAIN tasks \cup {x} |-> IF t = x THEN r ELSE tasks[t]] :
             x \in others, r \in OtherRows(a)}

\* C22: in every reachable state, for every actor whose only role is employee,
\* the task reads (select * of fetchData, select project_id of fetchProjects
\* with its counts) return the same in every store state that differs from
\* the current one only in a task not assigned to that actor, be the task
\* absent or present there.
C22_NoExistenceLeak ==
    \A a \in users :
        RolesOf(a) = {"employee"} =>
            \A tbl \in TaskVariants(a) :
                /\ TasksView(a, tbl) = TasksView(a, tasks)
                /\ TaskCounts(a, tbl) = TaskCounts(a, tasks)

\* an employee is assigned a task of a project that holds another task, which
\* is assigned to somebody else: the employee's count for the project is 1
C22_Witness ==
    \E a \in users, p \in DOMAIN projects :
        /\ RolesOf(a) = {"employee"}
        /\ p \in DOMAIN TaskCounts(a, tasks)
        /\ TaskCounts(a, tasks)[p] = 1
        /\ TaskCountsAll(a, tasks)[p] = 2
        /\ \E t \in DOMAIN tasks :
             tasks[t].project_id = p /\ tasks[t].assigned_to \notin {a, NULL}

----------------------------------------------------------------------------
(* Claims about role assignment: C23, C26, C27 *)

\* the role rows of actor x in a user_roles table
RowsOf(tbl, x) == {row \in tbl : row[1] = x}

\* C23: every step that changes the role rows of an actor x is a write sent by
\* an actor other than x (or the creation of x with its default row): no
\* actor, admin or not, changes its own role assignment.
C23_NoSelfAuthoredRole ==
    [][ \A x \in Actors :
          RowsOf(userRoles', x) # RowsOf(userRoles, x) =>
              \/ SignUpStep
              \/ \E uid \in Actors \ {x} : RoleWriteBy(uid) ]_vars

\* C26: an admin's handleSaveRole, run with no other write in between, is all
\* or nothing: when its delete or its insert fails the target's role rows at
\* the end are the rows before the operation, and when it ends with 'Role
\* updated successfully' the target's rows are exactly the new role.
C26_SaveRoleAllOrNothing ==
    [][ \A uid \in Actors, target \in Actors, r \in Roles :
          (has_role(uid, "admin") /\ HandleSaveRoleDelete(uid, target, r)) =>
              LET before == RowsOf(userRoles, target)
                  deleteFailed == before # {} /\ RowsOf(userRoles', target) = before
              IN \A insertOk \in BOOLEAN :
                   LET end == RowsOf(SaveRoleEnd(uid, target, r, insertOk)', target)
                       toast == SaveRoleToast(uid, target, r, insertOk)'
                   IN /\ (deleteFailed \/ toast = "Error updating role") => end = before
                      /\ toast = "Role updated successfully" => end = {<<target, r>>}
      ]_vars

\* C27: when two admins are both between the delete and the insert of
\* handleSaveRole on the same target with different new roles, and both
\* deletes have taken effect, then after both inserts, in either order, the
\* target holds exactly one role row, one of the two requested.
C27_ConcurrentSaveRoleOneRole ==
    [][ \A c1 \in SaveRoleClients, c2 \in SaveRoleClients, t \in Actors,
           r1 \in Roles, r2 \in Roles :
          ( /\ c1 # c2
            /\ r1 # r2
            /\ has_role(c1, "admin") /\ has_role(c2, "admin")
            /\ saveRole[c1] = [pc |-> "deleted", target |-> t, newRole |-> r1]
            /\ saveRole[c2] = [pc |-> "deleted", target |-> t, newRole |-> r2]
            /\ RowsOf(userRoles, t) = {}
            /\ HandleSaveRoleInsert(c1) ) =>
              LET end == RowsOf(SaveRoleEnd(c2, t, r2, TRUE)', t)
              IN /\ Cardinality(end) = 1
                 /\ end \subseteq {<<t, r1>>, <<t, r2>>}
      ]_vars

----------------------------------------------------------------------------
(* Claims about the hooks' fetches and loading flags: C28, C29 *)

\* C28: in every reachable state in which fetchData has run to its end at
\* least once and no call of it is awaiting its answer, the hook's task list
\* is what the store's task select returns to the user now.
C28_RefetchesEndCurrent ==
    (taskFetches = {} /\ ~tasksLoading) => hookTasks = TasksView(Requester, tasks)

\* C29: when every call is answered, the provider's loading flag becomes false
\* in every behaviour, whether there is no session or the fetch of the user's
\* data succeeds or fails; and whenever the page with useTasks and useProjects
\* is mounted, both hooks' loading flags become false (or the page has been
\* taken down by a sign-out before that).
C29_LoadingEnds ==
    /\ <>(~loading)
    /\ (effectUser # NULL) ~> (effectUser = NULL \/ (~tasksLoading /\ ~projectsLoading))

\* the provider's fetch brought no role, the selects of fetchData failed, and
\* every flag is off with nothing left in flight
C29_Witness ==
    /\ ~loading /\ user # NULL /\ role = NULL
    /\ effectUser # NULL /\ ~tasksLoading /\ ~projectsLoading
    /\ taskFetches = {} /\ projectFetches = {}
    /\ call.toast = "Error loading data"

----------------------------------------------------------------------------
(* Claims about the dialogs: C30 *)

\* a title or name that is not empty and has no space at either end
Trimmed(s) == s # <<>> /\ Head(s) # " " /\ s[Len(s)] # " "

TaskSaves == {"createTask", "updateTask"}
ProjectSaves == {"createProject", "updateProject"}

\* C30: a handleSave of either dialog on a title or name that trims to nothing
\* changes nothing and calls no onSave; every title or name an onSave call
\* carries, and every project name in the store, is non-empty and trimmed; the
\* store's tasks and projects change only under a save in progress; when a save
\* ends, isLoading is false again, the dialog is left as it was if onSave threw
\* and is closed if it did not; and a dialog closes only by Cancel or by a save
\* whose onSave did not throw.
C30_DialogSaves ==
    /\ [](taskDialog.sent = NoTitle \/ Trimmed(taskDialog.sent))
    /\ [](projectDialog.sent = NoTitle \/ Trimmed(projectDialog.sent))
    /\ [](\A p \in DOMAIN projects : Trimmed(projects[p].name))
    /\ [][ \A title \in Titles :
             Trim(title) = <<>> =>
                 /\ TaskDialogHandleSave(title) => UNCHANGED vars
                 /\ ProjectDialogHandleSave(title) => UNCHANGED vars ]_vars
    /\ [][ /\ tasks' # tasks => taskDialog.isLoading
           /\ projects' # projects => projectDialog.isLoading ]_vars
    /\ [][ (taskDialog.isLoading /\ ~taskDialog'.isLoading) =>
               /\ call'.fn \in TaskSaves
               /\ taskDialog'.open = IF call'.thrown THEN taskDialog.open ELSE FALSE ]_vars
    /\ [][ (projectDialog.isLoading /\ ~projectDialog'.isLoading) =>
               /\ call'.fn \in ProjectSaves
               /\ projectDialog'.open = IF call'.thrown THEN projectDialog.open ELSE FALSE ]_vars
    /\ [][ (taskDialog.open /\ ~taskDialog'.open) =>
               \/ CancelTaskDialog
               \/ taskDialog.isLoading /\ ~taskDialog'.isLoading /\ ~call'.thrown ]_vars
    /\ [][ (projectDialog.open /\ ~projectDialog'.open) =>
               \/ CancelProjectDialog
               \/ projectDialog.isLoading /\ ~projectDialog'.isLoading /\ ~call'.thrown ]_vars

\* a project was saved under a trimmed name, and a save of a new task whose
\* title was typed with spaces has failed: the task dialog is still open
C30_Witness ==
    /\ \E p \in DOMAIN projects : projects[p].name = <<"a">>
    /\ taskDialog.open /\ ~taskDialog.isLoading
    /\ taskDialog.sent = <<"a">>
    /\ call = Failed("createTask", "Error creating task")
    /\ tasks = <<>>

----------------------------------------------------------------------------
(* Claims about sign-out events and startup: C24, C25 *)

\* C24: a sign-out event (auth state change with a null session), in whatever
\* state it is received, leaves user, session, profile and role null and
\* loading false when its handler has run.
C24_ExternalSignOutClears ==
    [][ SignedOutEvent =>
            /\ user' = NULL
            /\ session' = <<>>
            /\ profile' = <<>>
            /\ role' = NULL
            /\ ~loading' ]_vars

\* the session ended while a fetch for a1 was awaiting its reads and before
\* getSession answered: nobody is signed in and the spinner is off
C24_Witness ==
    /\ authSession = <<>>
    /\ getSessionPending
    /\ inflight[<<"a1", "a1">>] > 0
    /\ ~signOutPending
    /\ user = NULL
    /\ session = <<>>
    /\ profile = <<>>
    /\ role = NULL
    /\ ~loading

\* C25: from startup on, while loading is true no profile and no role is set;
\* when getSession answers with a persisted session, the user is set, loading
\* stays true and the profile/role reads for that user are sent; when it
\* answers with none, user is null, loading becomes false and no read is sent
\* or scheduled; and loading turns false only in a step that finishes a
\* profile/role fetch or leaves the service without a session.
C25_StartupResolving ==
    /\ [](loading => (role = NULL /\ profile = <<>>))
    /\ [][ GetSessionResolved =>
              IF authSession # <<>>
              THEN /\ user' = authSession[1]
                   /\ loading' = loading
                   /\ role' = role
                   /\ \E k \in FetchKeys : k[1] = user' /\ inflight'[k] = inflight[k] + 1
              ELSE /\ user' = NULL
                   /\ ~loading'
                   /\ inflight' = inflight
                   /\ timers' = timers ]_vars
    /\ [][ (loading /\ ~loading') => (FetchCompletion \/ authSession' = <<>>) ]_vars

\* getSession has answered with a1's persisted session: a1 is the user, the
\* reads for a1 are awaited, the spinner is on and no role is set
C25_Witness ==
    /\ ~getSessionPending
    /\ authSession = <<"a1", 1>>
    /\ session = authSession
    /\ user = "a1"
    /\ inflight[<<"a1", "a1">>] = 1
    /\ loading
    /\ role = NULL
    /\ profile = <<>>

----------------------------------------------------------------------------
(* Claims about signIn and signUp: C20 *)

\* C20: a signIn or signUp call that fails returns the error to its caller
\* and leaves user, session, profile, role and loading as they were.
C20_FailedSignInKeepsState ==
    [][ (SignInFails \/ SignUpFails) =>
            /\ authError' \in {"signIn", "signUp"}
            /\ user' = user
            /\ session' = session
            /\ profile' = profile
            /\ role' = role
            /\ loading' = loading ]_vars

\* startup found no session and a signIn has then failed: nobody is signed in
\* and the spinner is off
C20_Witness ==
    /\ authError = "signIn"
    /\ ~getSessionPending
    /\ user = NULL
    /\ session = <<>>
    /\ authSession = <<>>
    /\ ~loading

====
